---- MODULE Spec2Model ----
(***************************************************************************)
(* Analysis cache of the trading journal (src-tauri/src/analysis.rs).      *)
(*                                                                         *)
(* Analyzer::analyze_trades is the one entry point of the cache: it takes  *)
(* the tokio Mutex around AnalysisCache, serves the held report when it is *)
(* younger than five minutes, and otherwise fetches all trades, runs the   *)
(* builder (perform_comprehensive_analysis) and stores the result.         *)
(* update_all_analysis and update_cache are thin wrappers around it.       *)
(*                                                                         *)
(* An Option<T> of the source is a sequence of length at most one:         *)
(* None is << >> and Some(x) is << x >>.                                   *)
(***************************************************************************)
EXTENDS Integers, Sequences, FiniteSets, TLC

\* ---------------------------------------------------------------- bounds
NCallers == 2
MaxTrades == 1
MaxClock == 5
\* Resolution of the clock: Utc::now() is read in ticks, TicksPerMinute a minute.
TicksPerMinute == 1
\* Longest trades table the builder is given, and the length of the table of
\* alternating wins and losses
MaxInput == 3
ExampleLen == 10
\* Rows of the trades table, updates of one row, and prices 1 .. MaxPrice
MaxRows == 2
MaxVersion == 3
MaxPrice == 2

\* ------------------------------------------------------ program constants
\* analysis.rs:391  num_minutes() < 5
FreshMinutes == 5
\* database.rs:761, 763  pips of a price difference
JpyPipFactor == 100
PipFactor == 10000
\* database.rs:767  standard lot size
LotSize == 100000
\* analysis.rs:991  LIMIT 10
StreakLimit == 10

\* the largest max_reconnect_attempts of the configurations tried
MaxAttempts == 3

\* the most update_analysis tasks spawned and not yet run
MaxSpawned == 2

\* the largest byte of a file or a key
MaxByte == 3

\* the longest file, in bytes
MaxContent == 2

\* the longest encryption key, in bytes
MaxKey == 2

Callers == 1 .. NCallers

None == << >>
Some(x) == << x >>
IsSome(o) == Len(o) = 1
Unwrap(o) == o[1]

\* ------------------------------------------------------------------ trades
\* The fields of Trade the analysis reads: the win/loss flag and the
\* realised profit or loss in account currency.
OpenTrade == [is_win |-> None, profit_loss_money |-> None]
WinTrade == [is_win |-> Some(TRUE), profit_loss_money |-> Some(2)]
LossTrade == [is_win |-> Some(FALSE), profit_loss_money |-> Some(0 - 1)]
TradeKinds == {OpenTrade, WinTrade, LossTrade}
\* Realised profits and losses of the closed trades the builder is given
PLValues == {0 - 100, 0 - 50, 0, 100, 200}

RECURSIVE SumSeq(_)
SumSeq(s) == IF s = << >> THEN 0 ELSE Head(s) + SumSeq(Tail(s))

\* f64::abs left out
AbsForgotten(x) == x

\* f64::abs
Abs(x) == IF x < 0 THEN 0 - x ELSE x

\* ------------------------------------------------------------------ f64
\* An f64 that is not a whole amount of money is an exact fraction num/den in
\* lowest terms with den > 0; 1/0 is +infinity, -1/0 is -infinity and 0/0 is
\* NaN. Rounding is not modelled. A value that is no fraction (a square root,
\* a power) is kept as the expression that produces it.
GCD(a, b) ==
    LET f[x \in Nat, y \in Nat] == IF y = 0 THEN x ELSE f[y, x % y]
    IN f[a, b]

Fin(n, d) ==
    LET f[x \in Int, y \in Int] ==
            LET m == IF x < 0 THEN 0 - x ELSE x
                g == GCD(m, y)
            IN [num |-> IF x < 0 THEN 0 - (m \div g) ELSE m \div g, den |-> y \div g]
    IN f[n, d]

Zero == [num |-> 0, den |-> 1]
One == [num |-> 1, den |-> 1]
Inf == [num |-> 1, den |-> 0]
NegInf == [num |-> 0 - 1, den |-> 0]
NaN == [num |-> 0, den |-> 0]

IsFraction(x) == DOMAIN x = {"num", "den"}
IsFinite(x) == IsFraction(x) /\ x.den # 0

\* The f64 values that are fractions
F64 == [num : Int, den : Nat]

\* f64 operators on fractions; the operands are taken as values x, y
FAdd(a, b) ==
    LET f[x \in F64, y \in F64] == Fin(x.num * y.den + y.num * x.den, x.den * y.den)
    IN f[a, b]
FSub(a, b) ==
    LET f[x \in F64, y \in F64] == Fin(x.num * y.den - y.num * x.den, x.den * y.den)
    IN f[a, b]
FMul(a, b) ==
    LET f[x \in F64, y \in F64] == Fin(x.num * y.num, x.den * y.den)
    IN f[a, b]
FLess(a, b) == a.num * b.den < b.num * a.den

\* f64 division of a finite a by a finite b: x/0 is an infinity, 0/0 is NaN
FDiv(a, b) ==
    LET f[x \in F64, y \in F64] ==
            IF y.num = 0
            THEN (IF x.num = 0 THEN NaN ELSE IF x.num > 0 THEN Inf ELSE NegInf)
            ELSE IF y.num > 0 THEN Fin(x.num * y.den, x.den * y.num)
            ELSE Fin(0 - (x.num * y.den), x.den * (0 - y.num))
    IN f[a, b]

\* f64::powf for a base >= 0 (finite or +infinity) and a finite exponent >= 0
powf(base, exponent) ==
    IF exponent = Zero \/ base = One THEN One
    ELSE IF base = Inf THEN Inf
    ELSE IF base = Zero THEN Zero
    ELSE IF exponent = One THEN base
    ELSE [pow_base |-> base, pow_exp |-> exponent]

\* f64::min(self, 1.0) of a value >= 0
min_one(x) ==
    IF x = Inf THEN One
    ELSE IF IsFinite(x) THEN (IF FLess(One, x) THEN One ELSE x)
    ELSE IF FLess(One, x.pow_base) THEN One ELSE x

\* statistical::mean
mean(v) == Fin(SumSeq(v), Len(v))

RECURSIVE SumSquares(_, _)
SumSquares(v, s) ==
    IF v = << >> THEN 0
    ELSE (Head(v) - s) * (Head(v) - s) + SumSquares(Tail(v), s)

\* statistical::variance, the sample (n-1) variance of two points or more
variance(v) ==
    LET n == Len(v)
        scaled == [i \in 1 .. n |-> v[i] * n]
    IN Fin(SumSquares(scaled, SumSeq(v)), n * n * (n - 1))

\* statistical::standard_deviation. With fewer than two points the sample
\* variance is 0/0: the library either asserts (see BuilderPanics) or
\* returns NaN.
standard_deviation(v) ==
    IF Len(v) < 2 THEN NaN
    ELSE IF variance(v) = Zero THEN Zero
    ELSE [sqrt_of |-> variance(v)]

\* calculate_sharpe_ratio, 2% as the risk-free rate
calculate_sharpe_ratio(returns) ==
    IF returns = << >> THEN Zero
    ELSE LET avg_return == mean(returns)
             std_dev == standard_deviation(returns)
         IN IF std_dev = Zero THEN Zero
            ELSE IF std_dev = NaN THEN NaN
            ELSE [ratio_num |-> FSub(avg_return, Fin(2, 100)), ratio_den |-> std_dev]

\* calculate_risk_of_ruin; win_rate is in [0, 1], avg_win and avg_loss are >= 0
calculate_risk_of_ruin(win_rate, avg_win, avg_loss) ==
    IF avg_loss = Zero THEN Zero
    ELSE LET win_ratio == FDiv(avg_win, avg_loss)
             p == win_rate
             risk == powf(FDiv(FSub(One, p), p), win_ratio)
         IN min_one(risk)

\* closed_trades / open_trades of perform_comprehensive_analysis
ClosedTrades(ts) == SelectSeq(ts, LAMBDA t : IsSome(t.is_win))

\* open_trades filtered with the test of closed_trades
OpenTradesCopied(ts) == SelectSeq(ts, LAMBDA t : IsSome(t.is_win))

OpenTrades(ts) == SelectSeq(ts, LAMBDA t : ~IsSome(t.is_win))

\* profits: one value per closed trade, unwrap_or(0.0)
Profits(closed) ==
    [i \in 1 .. Len(closed) |->
        IF IsSome(closed[i].profit_loss_money)
        THEN Unwrap(closed[i].profit_loss_money) ELSE 0]

\* DrawdownLoop that measures the drawdown to the single return instead of
\* the running sum
RECURSIVE DrawdownLoopOnReturns(_, _, _, _)
DrawdownLoopOnReturns(returns, peak, maxdd, running) ==
    IF returns = << >> THEN maxdd
    ELSE LET sum == running + Head(returns)
             pk == IF sum > peak THEN sum ELSE peak
             dd == pk - Head(returns)
         IN DrawdownLoopOnReturns(Tail(returns), pk,
                                  IF dd > maxdd THEN dd ELSE maxdd, sum)

\* calculate_max_drawdown: the loop state is <<peak, max_drawdown, running_sum>>
RECURSIVE DrawdownLoop(_, _, _, _)
DrawdownLoop(returns, peak, maxdd, running) ==
    IF returns = << >> THEN maxdd
    ELSE LET sum == running + Head(returns)
             pk == IF sum > peak THEN sum ELSE peak
             dd == pk - sum
         IN DrawdownLoop(Tail(returns), pk, IF dd > maxdd THEN dd ELSE maxdd, sum)

\* calculate_max_drawdown with the peak starting at 0 instead of returns[0]
calculate_max_drawdown_peak_zero(returns) ==
    IF returns = << >> THEN 0 ELSE DrawdownLoop(returns, 0, 0, 0)

calculate_max_drawdown(returns) ==
    IF returns = << >> THEN 0 ELSE DrawdownLoop(returns, returns[1], 0, 0)

\* calculate_summary. Amounts of money are whole numbers; the ratios are f64.
calculate_summary(ts, closed) ==
    LET total_trades == Len(ts)
        open_trades == Len(SelectSeq(ts, LAMBDA t : ~IsSome(t.is_win)))
        winning_trades == Len(SelectSeq(closed, LAMBDA t : Unwrap(t.is_win)))
        losing_trades == Len(SelectSeq(closed, LAMBDA t : ~Unwrap(t.is_win)))
        win_rate == IF closed = << >> THEN Zero
                    ELSE FMul(Fin(winning_trades, Len(closed)), Fin(100, 1))
        profits == Profits(closed)
        net_profit == SumSeq(profits)
        gross_profit == SumSeq(SelectSeq(profits, LAMBDA p : p > 0))
        gross_loss == Abs(SumSeq(SelectSeq(profits, LAMBDA p : p < 0)))
        profit_factor == IF gross_loss > 0 THEN Fin(gross_profit, gross_loss) ELSE Inf
        average_win == IF winning_trades > 0
                       THEN Fin(SumSeq(SelectSeq(profits, LAMBDA p : p > 0)), winning_trades)
                       ELSE Zero
        average_loss == IF losing_trades > 0
                        THEN Fin(Abs(SumSeq(SelectSeq(profits, LAMBDA p : p < 0))),
                                 losing_trades)
                        ELSE Zero
        expectancy == FSub(FMul(FDiv(win_rate, Fin(100, 1)), average_win),
                           FMul(FDiv(FSub(Fin(100, 1), win_rate), Fin(100, 1)),
                                average_loss))
        average_trade == IF closed # << >> THEN Fin(net_profit, Len(closed)) ELSE Zero
        sharpe_ratio == calculate_sharpe_ratio(profits)
        max_drawdown == calculate_max_drawdown(profits)
        recovery_factor == IF max_drawdown > 0 THEN Fin(net_profit, max_drawdown)
                           ELSE Zero
        risk_of_ruin == calculate_risk_of_ruin(FDiv(win_rate, Fin(100, 1)),
                                               average_win, average_loss)
    IN [total_trades |-> total_trades,
        winning_trades |-> winning_trades,
        losing_trades |-> losing_trades,
        open_trades |-> open_trades,
        win_rate |-> win_rate,
        net_profit |-> net_profit,
        gross_profit |-> gross_profit,
        gross_loss |-> gross_loss,
        profit_factor |-> profit_factor,
        expectancy |-> expectancy,
        average_trade |-> average_trade,
        sharpe_ratio |-> sharpe_ratio,
        max_drawdown |-> max_drawdown,
        recovery_factor |-> recovery_factor,
        risk_of_ruin |-> risk_of_ruin]

\* AnalysisSummary::default()
DefaultSummary ==
    [total_trades |-> 0, winning_trades |-> 0, losing_trades |-> 0,
     open_trades |-> 0, win_rate |-> Zero, net_profit |-> 0, gross_profit |-> 0,
     gross_loss |-> 0, profit_factor |-> Zero, expectancy |-> Zero,
     average_trade |-> Zero, sharpe_ratio |-> Zero, max_drawdown |-> 0,
     recovery_factor |-> Zero, risk_of_ruin |-> Zero]

\* calculate_performance_metrics: total_return and volatility, the fields
\* computed from the profits. PerformanceMetrics::default() is returned for no
\* closed trade.
DefaultPerformance == [total_return |-> 0, volatility |-> Zero]
calculate_performance_metrics(closed) ==
    IF closed = << >> THEN DefaultPerformance
    ELSE [total_return |-> SumSeq(Profits(closed)),
          volatility |-> standard_deviation(Profits(closed))]

\* ConsistencyMetrics::default(): the streak lists are empty vectors
DefaultConsistency == [win_streaks |-> << >>, loss_streaks |-> << >>]

\* calculate_consistency_metrics, a placeholder that ignores its argument
calculate_consistency_metrics(ts) == DefaultConsistency

\* analyze_psychological_aspects that counts every trade that is no loss,
\* the open ones included, into a win streak
analyze_psychological_counting_open(ts) ==
    [consistency |->
        [win_streaks |-> << Len(SelectSeq(ts, LAMBDA t : t.is_win # Some(FALSE))) >>,
         loss_streaks |-> << >>]]

\* analyze_psychological_aspects: the consistency metrics; the other three
\* parts are placeholders of the same kind
analyze_psychological_aspects(ts) ==
    [consistency |-> calculate_consistency_metrics(ts)]

\* PsychologicalMetrics::default()
DefaultPsychological == [consistency |-> DefaultConsistency]

\* The remaining five groups are assembled from placeholder helpers that
\* return Default values whatever the trades are.
DefaultGroup(name) == [group |-> name]

SubReports ==
    {"summary", "performance", "psychological", "technical",
     "ict_analysis", "time_analysis", "risk_analysis", "strategy_analysis"}

\* The closure of rayon::join that computes sub-report k
SubReport(k, ts) ==
    CASE k = "summary" -> calculate_summary(ts, ClosedTrades(ts))
      [] k = "performance" -> calculate_performance_metrics(ClosedTrades(ts))
      [] k = "psychological" -> analyze_psychological_aspects(ts)
      [] OTHER -> DefaultGroup(k)

\* perform_comprehensive_analysis: the eight results, assembled
perform_comprehensive_analysis(ts) == [k \in SubReports |-> SubReport(k, ts)]

\* TradeAnalysis::default()
DefaultTradeAnalysis ==
    [k \in SubReports |->
        CASE k = "summary" -> DefaultSummary
          [] k = "performance" -> DefaultPerformance
          [] k = "psychological" -> DefaultPsychological
          [] OTHER -> DefaultGroup(k)]

\* ------------------------------------------------------------------- state
VARIABLES
    trades,        \* the trades table, as get_all_trades returns it
    cache,         \* AnalysisCache: trade_analysis and last_update
    now,           \* Utc::now(), in ticks
    lock,          \* holder of the tokio Mutex around the cache, 0 when free
    waiters,       \* callers suspended in cache.lock().await, oldest first
    pc,            \* position of each caller inside analyze_trades
    op,            \* the public method each caller entered through
    local_trades,  \* the local `trades` of analyze_trades
    partial,       \* results of the rayon::join closures that have finished
    fetches,       \* outcomes of the get_all_trades calls of the current call
    builds,        \* perform_comprehensive_analysis runs of the current call
    raced,         \* another call returned while the current call was in flight
    last,          \* the most recent return: method, result, work it did
    stdlib,        \* what this build's standard_deviation does with one point
    config,        \* MetaTraderIntegration.config
    connection_state, \* MetaTraderIntegration.connection_state
    manager,       \* the task of start_connection_manager
    is_initialized, \* AppState.is_initialized
    setup,         \* position of setup_app inside initialize_app
    initialized,   \* the components whose initialization step has succeeded
    accessed,      \* the components a command or task has called into
    spawned,       \* the tasks started with tokio::spawn that are still to run
    disk,          \* the files create_backup finds, by content
    backup_manager, \* BackupManager: config and encryption_key
    archive        \* the zip file create_backup has written, as its entries

\* MTConnectionConfig::default(), the fields the connection manager reads
DefaultConfig ==
    [enabled |-> FALSE, auto_reconnect |-> TRUE, max_reconnect_attempts |-> 10]

\* ConnectionState::default()
DefaultConnectionState ==
    [connected |-> FALSE, last_connection |-> None, reconnect_attempts |-> 0,
     last_error |-> None]

\* the state outside the analyzer and the trades table
rest ==
    << config, connection_state, manager,
       is_initialized, setup, initialized, accessed, spawned,
       disk, backup_manager, archive >>

\* BackupConfig::default(), the fields create_backup and restore_backup read
DefaultBackupConfig ==
    [include_images |-> TRUE, encryption_enabled |-> FALSE, encryption_key |-> None]

\* BackupManager::new
NewBackupManager ==
    [config |-> DefaultBackupConfig, encryption_key |-> None, initialized |-> FALSE]

\* MetaTraderIntegration::new, AppState::default(), BackupManager::new
RestInit ==
    /\ config = DefaultConfig
    /\ connection_state = DefaultConnectionState
    /\ manager = "new"
    /\ is_initialized = FALSE
    /\ setup = "start"
    /\ initialized = {}
    /\ accessed = {}
    /\ spawned = [background |-> FALSE, update_analysis |-> 0]
    /\ disk = [db |-> None, image |-> None]
    /\ backup_manager = NewBackupManager
    /\ archive = None

vars ==
    << trades, cache, now, lock, waiters, pc, op, local_trades, partial,
       fetches, builds, raced, last, stdlib, rest >>

\* statistical::standard_deviation of fewer than two points: the assertion of
\* the library fails, or 0/0 is computed
StdDevBuilds == {"panic", "nan"}

Ops == {"analyze_trades", "update_all_analysis", "update_cache"}
RefreshOps == {"update_all_analysis", "update_cache"}

\* Analyzer::new
EmptyCache == [trade_analysis |-> None, last_update |-> None]

NoPartial == [k \in {} |-> 0]

Init ==
    /\ trades = << >>
    /\ cache = EmptyCache
    /\ now = 0
    /\ lock = 0
    /\ waiters = << >>
    /\ pc = [c \in Callers |-> "idle"]
    /\ op = [c \in Callers |-> "analyze_trades"]
    /\ local_trades = [c \in Callers |-> << >>]
    /\ partial = [c \in Callers |-> NoPartial]
    /\ fetches = [c \in Callers |-> << >>]
    /\ builds = [c \in Callers |-> 0]
    /\ raced = [c \in Callers |-> FALSE]
    /\ last = None
    /\ stdlib \in StdDevBuilds
    /\ RestInit

\* Duration::num_minutes of a non-negative duration: whole minutes
num_minutes(d) == d \div TicksPerMinute

\* IsFresh with the boundary minute still served
IsFreshInclusive(ch, t) ==
    /\ IsSome(ch.trade_analysis)
    /\ IsSome(ch.last_update)
    /\ num_minutes(t - Unwrap(ch.last_update)) <= FreshMinutes

\* analysis.rs:389-395, the test that serves the held report
IsFresh(ch, t) ==
    /\ IsSome(ch.trade_analysis)
    /\ IsSome(ch.last_update)
    /\ num_minutes(t - Unwrap(ch.last_update)) < FreshMinutes

\* What analyze_trades makes of a fetched trade list (analysis.rs:402-409)
ReportOf(ts) ==
    IF ts = << >> THEN DefaultTradeAnalysis ELSE perform_comprehensive_analysis(ts)

\* A caller enters analyze_trades through method o and suspends in lock().await
Enter(c, o) ==
    /\ pc[c] = "idle"
    /\ pc' = [pc EXCEPT ![c] = "lock"]
    /\ op' = [op EXCEPT ![c] = o]
    /\ waiters' = Append(waiters, c)
    /\ UNCHANGED << cache, now, stdlib, rest, lock, local_trades, partial, fetches, builds,
                    raced, last >>

\* Leave that does not drop the MutexGuard
LeaveKeepsLock(c, analysis, log, read) ==
    /\ pc' = [pc EXCEPT ![c] = "idle"]
    /\ op' = [op EXCEPT ![c] = "analyze_trades"]
    /\ lock' = lock
    /\ local_trades' = [local_trades EXCEPT ![c] = << >>]
    /\ partial' = [partial EXCEPT ![c] = NoPartial]
    /\ fetches' = [fetches EXCEPT ![c] = << >>]
    /\ builds' = [builds EXCEPT ![c] = 0]
    /\ raced' = [x \in Callers |-> x # c /\ pc[x] # "idle"]
    /\ last' = Some([op |-> op[c], analysis |-> analysis, fetches |-> log,
                     builds |-> builds[c],
                     reflects |-> analysis = Some(ReportOf(read))])

\* The call returns: the MutexGuard is dropped, the locals are gone.
\* `analysis` is the Result of analyze_trades (None for Err), `read` the trade
\* list the call fetched, or the table as it stood when the call fetched none.
Leave(c, analysis, log, read) ==
    /\ pc' = [pc EXCEPT ![c] = "idle"]
    /\ op' = [op EXCEPT ![c] = "analyze_trades"]
    /\ lock' = 0
    /\ local_trades' = [local_trades EXCEPT ![c] = << >>]
    /\ partial' = [partial EXCEPT ![c] = NoPartial]
    /\ fetches' = [fetches EXCEPT ![c] = << >>]
    /\ builds' = [builds EXCEPT ![c] = 0]
    /\ raced' = [x \in Callers |-> x # c /\ pc[x] # "idle"]
    /\ last' = Some([op |-> op[c], analysis |-> analysis, fetches |-> log,
                     builds |-> builds[c],
                     reflects |-> analysis = Some(ReportOf(read))])

\* get_dashboard_data / quick_analysis: analyze_trades
GetReport(c) ==
    /\ Enter(c, "analyze_trades")
    /\ UNCHANGED trades

\* the five-minute sync task of main.rs: update_cache
UpdateCache(c) ==
    /\ Enter(c, "update_cache")
    /\ UNCHANGED trades

InsertAt(s, i, x) == SubSeq(s, 1, i - 1) \o << x >> \o SubSeq(s, i, Len(s))
RemoveAt(s, i) == SubSeq(s, 1, i - 1) \o SubSeq(s, i + 1, Len(s))

\* main.rs create_trade: the row is stored, then update_analysis is spawned
CreateTrade(c, k, i) ==
    /\ Len(trades) < MaxTrades
    /\ trades' = InsertAt(trades, i, k)
    /\ Enter(c, "update_all_analysis")

\* main.rs update_trade
UpdateTrade(c, k, i) ==
    /\ trades[i] # k
    /\ trades' = [trades EXCEPT ![i] = k]
    /\ Enter(c, "update_all_analysis")

\* main.rs delete_trade
DeleteTrade(c, i) ==
    /\ trades' = RemoveAt(trades, i)
    /\ Enter(c, "update_all_analysis")

\* CheckCache with a lock that does not exclude
CheckCacheNoLock(c) ==
    /\ pc[c] = "lock"
    /\ waiters # << >>
    /\ Head(waiters) = c
    /\ waiters' = Tail(waiters)
    /\ IF IsFresh(cache, now)
       THEN Leave(c, cache.trade_analysis, fetches[c], trades)
       ELSE /\ pc' = [pc EXCEPT ![c] = "fetch"]
            /\ lock' = c
            /\ UNCHANGED << op, local_trades, partial, fetches, builds, raced, last >>
    /\ UNCHANGED << trades, cache, now, stdlib, rest >>

\* analysis.rs:386-395: the lock is granted, the cache is checked
CheckCache(c) ==
    /\ pc[c] = "lock"
    /\ lock = 0
    /\ waiters # << >>
    /\ Head(waiters) = c
    /\ waiters' = Tail(waiters)
    /\ IF IsFresh(cache, now)
       THEN Leave(c, cache.trade_analysis, fetches[c], trades)
       ELSE /\ pc' = [pc EXCEPT ![c] = "fetch"]
            /\ lock' = c
            /\ UNCHANGED << op, local_trades, partial, fetches, builds, raced, last >>
    /\ UNCHANGED << trades, cache, now, stdlib, rest >>

\* FetchOk without the test for an empty trade list
FetchOkAlwaysBuilds(c) ==
    /\ pc[c] = "fetch"
    /\ lock = c
    /\ pc' = [pc EXCEPT ![c] = "build"]
    /\ local_trades' = [local_trades EXCEPT ![c] = trades]
    /\ fetches' = [fetches EXCEPT ![c] = Append(@, "ok")]
    /\ UNCHANGED << lock, op, partial, builds, raced, last >>
    /\ UNCHANGED << trades, cache, now, stdlib, rest, waiters >>

\* analysis.rs:400-404: get_all_trades succeeds
FetchOk(c) ==
    /\ pc[c] = "fetch"
    /\ lock = c
    /\ IF trades = << >>
       THEN Leave(c, Some(DefaultTradeAnalysis), Append(fetches[c], "ok"), trades)
       ELSE /\ pc' = [pc EXCEPT ![c] = "build"]
            /\ local_trades' = [local_trades EXCEPT ![c] = trades]
            /\ fetches' = [fetches EXCEPT ![c] = Append(@, "ok")]
            /\ UNCHANGED << lock, op, partial, builds, raced, last >>
    /\ UNCHANGED << trades, cache, now, stdlib, rest, waiters >>

\* FetchErr that drops the held report
FetchErrClearsCache(c) ==
    /\ pc[c] = "fetch"
    /\ lock = c
    /\ cache' = EmptyCache
    /\ Leave(c, None, Append(fetches[c], "err"), trades)
    /\ UNCHANGED << trades, now, stdlib, rest, waiters >>

\* FetchErr that falls back to the held report
FetchErrServesHeld(c) ==
    /\ pc[c] = "fetch"
    /\ lock = c
    /\ Leave(c, cache.trade_analysis, Append(fetches[c], "err"), trades)
    /\ UNCHANGED << trades, cache, now, stdlib, rest, waiters >>

\* FetchErr that returns the error with the lock still held
FetchErrKeepsLock(c) ==
    /\ pc[c] = "fetch"
    /\ lock = c
    /\ pc' = [pc EXCEPT ![c] = "idle"]
    /\ op' = [op EXCEPT ![c] = "analyze_trades"]
    /\ fetches' = [fetches EXCEPT ![c] = << >>]
    /\ raced' = [x \in Callers |-> x # c /\ pc[x] # "idle"]
    /\ last' = Some([op |-> op[c], analysis |-> None,
                     fetches |-> Append(fetches[c], "err"), builds |-> builds[c],
                     reflects |-> FALSE])
    /\ UNCHANGED << lock, local_trades, partial, builds >>
    /\ UNCHANGED << trades, cache, now, stdlib, rest, waiters >>

\* analysis.rs:400: get_all_trades fails and `?` returns the error
FetchErr(c) ==
    /\ pc[c] = "fetch"
    /\ lock = c
    /\ Leave(c, None, Append(fetches[c], "err"), trades)
    /\ UNCHANGED << trades, cache, now, stdlib, rest, waiters >>

\* The builder panics: standard_deviation is called with the profits of one
\* closed trade (calculate_sharpe_ratio, calculate_performance_metrics) and
\* its assertion fails. `.await.unwrap()` passes the panic on to the caller,
\* whose MutexGuard is dropped by the unwinding.
BuilderPanics(ts) ==
    /\ stdlib = "panic"
    /\ ClosedTrades(ts) # << >>
    /\ Len(Profits(ClosedTrades(ts))) < 2

\* BuildStep in which the performance closure takes total_return from the
\* summary closure's result when that is there already
BuildStepReadsSummary(c, k) ==
    /\ pc[c] = "build"
    /\ lock = c
    /\ k \notin DOMAIN partial[c]
    /\ IF k \in {"summary", "performance"} /\ BuilderPanics(local_trades[c])
       THEN Leave(c, None, fetches[c], local_trades[c])
       ELSE /\ partial' = [partial EXCEPT ![c] =
                      [j \in DOMAIN partial[c] \cup {k} |->
                          IF j # k THEN partial[c][j]
                          ELSE IF k = "performance" /\ "summary" \in DOMAIN partial[c]
                          THEN [total_return |-> 0 - partial[c]["summary"].net_profit,
                                volatility |-> Zero]
                          ELSE SubReport(k, local_trades[c])]]
            /\ builds' = [builds EXCEPT ![c] =
                             IF DOMAIN partial[c] = {} THEN @ + 1 ELSE @]
            /\ UNCHANGED << lock, pc, op, local_trades, fetches, raced, last >>
    /\ UNCHANGED << trades, cache, now, stdlib, rest, waiters >>

\* analysis.rs:407-409 and 429-438: one closure of rayon::join finishes, or
\* panics
BuildStep(c, k) ==
    /\ pc[c] = "build"
    /\ lock = c
    /\ k \notin DOMAIN partial[c]
    /\ IF k \in {"summary", "performance"} /\ BuilderPanics(local_trades[c])
       THEN Leave(c, None, fetches[c], local_trades[c])
       ELSE /\ partial' = [partial EXCEPT ![c] =
                      [j \in DOMAIN @ \cup {k} |->
                          IF j = k THEN SubReport(k, local_trades[c]) ELSE @[j]]]
            /\ builds' = [builds EXCEPT ![c] =
                             IF DOMAIN partial[c] = {} THEN @ + 1 ELSE @]
            /\ UNCHANGED << lock, pc, op, local_trades, fetches, raced, last >>
    /\ UNCHANGED << trades, cache, now, stdlib, rest, waiters >>

\* analysis.rs:407-409: spawn_blocking runs perform_comprehensive_analysis,
\* which returns the report or panics
Build(c) ==
    /\ pc[c] = "build"
    /\ lock = c
    /\ partial[c] = NoPartial
    /\ IF BuilderPanics(local_trades[c])
       THEN Leave(c, None, fetches[c], local_trades[c])
       ELSE /\ partial' = [partial EXCEPT ![c] =
                              perform_comprehensive_analysis(local_trades[c])]
            /\ builds' = [builds EXCEPT ![c] = @ + 1]
            /\ UNCHANGED << lock, pc, op, local_trades, fetches, raced, last >>
    /\ UNCHANGED << trades, cache, now, stdlib, rest, waiters >>

\* Store that does not wait for every closure
StoreEarly(c) ==
    /\ pc[c] = "build"
    /\ lock = c
    /\ cache' = [trade_analysis |-> Some(partial[c]), last_update |-> Some(now)]
    /\ Leave(c, Some(partial[c]), fetches[c], local_trades[c])
    /\ UNCHANGED << trades, now, stdlib, rest, waiters >>

\* analysis.rs:440-450 and 411-415: the results are joined, the cache is set
Store(c) ==
    /\ pc[c] = "build"
    /\ lock = c
    /\ DOMAIN partial[c] = SubReports
    /\ cache' = [trade_analysis |-> Some(partial[c]), last_update |-> Some(now)]
    /\ Leave(c, Some(partial[c]), fetches[c], local_trades[c])
    /\ UNCHANGED << trades, now, stdlib, rest, waiters >>

\* time passes
Tick ==
    /\ now < MaxClock
    /\ now' = now + 1
    /\ UNCHANGED << trades, cache, lock, waiters, pc, op, local_trades, partial,
                    fetches, builds, raced, last, stdlib, rest >>

Next ==
    \/ \E c \in Callers : GetReport(c)
    \/ \E c \in Callers : UpdateCache(c)
    \/ \E c \in Callers, k \in TradeKinds, i \in 1 .. (Len(trades) + 1) :
          CreateTrade(c, k, i)
    \/ \E c \in Callers, k \in TradeKinds, i \in 1 .. Len(trades) :
          UpdateTrade(c, k, i)
    \/ \E c \in Callers, i \in 1 .. Len(trades) : DeleteTrade(c, i)
    \/ \E c \in Callers : CheckCache(c)
    \/ \E c \in Callers : FetchOk(c)
    \/ \E c \in Callers : FetchErr(c)
    \/ \E c \in Callers : Build(c)
    \/ \E c \in Callers : Store(c)
    \/ Tick

Spec == Init /\ [][Next]_vars

\* The tokio runtime polls every task that is ready: the waiter at the head
\* of the Mutex's queue gets the lock once it is free, the repository query
\* comes back with Ok or Err, the blocking builder task runs to its end and
\* the caller then stores and returns.
CallStep(c) ==
    CheckCache(c) \/ FetchOk(c) \/ FetchErr(c) \/ Build(c) \/ Store(c)

Fairness == \A c \in Callers : WF_vars(CallStep(c))

\* The calls of analyze_trades against a trades table that does not change:
\* every table of up to MaxTrades trades
InitLive ==
    /\ trades \in UNION {[1 .. n -> TradeKinds] : n \in 0 .. MaxTrades}
    /\ cache = EmptyCache
    /\ now = 0
    /\ lock = 0
    /\ waiters = << >>
    /\ pc = [c \in Callers |-> "idle"]
    /\ op = [c \in Callers |-> "analyze_trades"]
    /\ local_trades = [c \in Callers |-> << >>]
    /\ partial = [c \in Callers |-> NoPartial]
    /\ fetches = [c \in Callers |-> << >>]
    /\ builds = [c \in Callers |-> 0]
    /\ raced = [c \in Callers |-> FALSE]
    /\ last = None
    /\ stdlib \in StdDevBuilds
    /\ RestInit

NextLive ==
    \/ \E c \in Callers : GetReport(c)
    \/ \E c \in Callers : UpdateCache(c)
    \/ \E c \in Callers : CheckCache(c)
    \/ \E c \in Callers : FetchOk(c)
    \/ \E c \in Callers : FetchErr(c)
    \/ \E c \in Callers : Build(c)
    \/ \E c \in Callers : Store(c)
    \/ Tick

SpecLive == InitLive /\ [][NextLive]_vars /\ Fairness

\* The same program with the eight closures of rayon::join as separate steps,
\* for the calls that create_trade and the dashboard make.
NextJoin ==
    \/ \E c \in Callers : GetReport(c)
    \/ \E c \in Callers, k \in TradeKinds, i \in 1 .. (Len(trades) + 1) :
          CreateTrade(c, k, i)
    \/ \E c \in Callers : CheckCache(c)
    \/ \E c \in Callers : FetchOk(c)
    \/ \E c \in Callers : FetchErr(c)
    \/ \E c \in Callers, k \in SubReports : BuildStep(c, k)
    \/ \E c \in Callers : Store(c)
    \/ Tick

SpecJoin == Init /\ [][NextJoin]_vars

\* The analysis of a trades table that start-up finds in the database: the
\* calls of the dashboard against every table of up to MaxInput trades, and
\* against the table of ExampleLen trades that alternate win and loss.
InputKinds ==
    {OpenTrade} \cup
    {[is_win |-> Some(w), profit_loss_money |-> Some(p)] :
        w \in BOOLEAN, p \in PLValues}

TradeLists == UNION {[1 .. n -> InputKinds] : n \in 0 .. MaxInput}

Alternating ==
    [i \in 1 .. ExampleLen |->
        IF i % 2 = 1 THEN [is_win |-> Some(TRUE), profit_loss_money |-> Some(100)]
        ELSE [is_win |-> Some(FALSE), profit_loss_money |-> Some(0 - 50)]]

InitBuilder ==
    /\ trades \in TradeLists \cup {Alternating}
    /\ cache = EmptyCache
    /\ now = 0
    /\ lock = 0
    /\ waiters = << >>
    /\ pc = [c \in Callers |-> "idle"]
    /\ op = [c \in Callers |-> "analyze_trades"]
    /\ local_trades = [c \in Callers |-> << >>]
    /\ partial = [c \in Callers |-> NoPartial]
    /\ fetches = [c \in Callers |-> << >>]
    /\ builds = [c \in Callers |-> 0]
    /\ raced = [c \in Callers |-> FALSE]
    /\ last = None
    /\ stdlib \in StdDevBuilds
    /\ RestInit

NextBuilder ==
    \/ \E c \in Callers : GetReport(c)
    \/ \E c \in Callers : CheckCache(c)
    \/ \E c \in Callers : FetchOk(c)
    \/ \E c \in Callers : Build(c)
    \/ \E c \in Callers : Store(c)

SpecBuilder == InitBuilder /\ [][NextBuilder]_vars

\* ----------------------------------------------------------- current streak
\* calculate_current_streak: the query (closed trades, newest entry time
\* first, LIMIT 10) and the loop over its rows. The table is kept in the
\* order of entry_time DESC.
recent_trades(ts) ==
    LET closed == ClosedTrades(ts)
    IN [i \in 1 .. (IF Len(closed) < StreakLimit THEN Len(closed) ELSE StreakLimit) |->
           Unwrap(closed[i].is_win)]

\* The loop of calculate_current_streak that goes on where the code breaks
RECURSIVE StreakLoopNoBreak(_, _)
StreakLoopNoBreak(rows, streak) ==
    IF rows = << >> THEN streak
    ELSE LET is_win == Head(rows)
         IN IF (streak >= 0 /\ is_win) \/ (streak <= 0 /\ ~is_win)
            THEN StreakLoopNoBreak(Tail(rows), streak + (IF is_win THEN 1 ELSE 0 - 1))
            ELSE StreakLoopNoBreak(Tail(rows), streak)

RECURSIVE StreakLoop(_, _)
StreakLoop(rows, streak) ==
    IF rows = << >> THEN streak
    ELSE LET is_win == Head(rows)
         IN IF (streak >= 0 /\ is_win) \/ (streak <= 0 /\ ~is_win)
            THEN StreakLoop(Tail(rows), streak + (IF is_win THEN 1 ELSE 0 - 1))
            ELSE streak

calculate_current_streak(ts) == StreakLoop(recent_trades(ts), 0)

\* The tables the streak is asked of: every table of up to MaxInput trades and
\* every table of StreakLimit + 1 closed trades
StreakTables ==
    UNION {[1 .. n -> TradeKinds] : n \in 0 .. MaxInput}
    \cup [1 .. (StreakLimit + 1) -> {WinTrade, LossTrade}]

InitStreak ==
    /\ trades \in StreakTables
    /\ cache = EmptyCache
    /\ now = 0
    /\ lock = 0
    /\ waiters = << >>
    /\ pc = [c \in Callers |-> "idle"]
    /\ op = [c \in Callers |-> "analyze_trades"]
    /\ local_trades = [c \in Callers |-> << >>]
    /\ partial = [c \in Callers |-> NoPartial]
    /\ fetches = [c \in Callers |-> << >>]
    /\ builds = [c \in Callers |-> 0]
    /\ raced = [c \in Callers |-> FALSE]
    /\ last = None
    /\ stdlib \in StdDevBuilds
    /\ RestInit

\* calculate_current_streak returns Ok(streak)
CurrentStreakOk ==
    /\ last' = Some([op |-> "calculate_current_streak",
                     streak |-> Some(calculate_current_streak(trades))])
    /\ UNCHANGED << trades, cache, now, stdlib, rest, lock, waiters, pc, op, local_trades,
                    partial, fetches, builds, raced >>

\* the query of calculate_current_streak fails: Err
CurrentStreakErr ==
    /\ last' = Some([op |-> "calculate_current_streak", streak |-> None])
    /\ UNCHANGED << trades, cache, now, stdlib, rest, lock, waiters, pc, op, local_trades,
                    partial, fetches, builds, raced >>

NextStreak == CurrentStreakOk \/ CurrentStreakErr

SpecStreak == InitStreak /\ [][NextStreak]_vars

\* ------------------------------------------------------------ trades table
\* database.rs: the rows of the trades table, written by create_trade and
\* update_trade. A row holds the columns the derived fields are computed from
\* and the derived fields themselves.
Prices == 1 .. MaxPrice
Symbols == {"EURUSD", "USDJPY"}
TradeTypes == {"Buy", "Sell"}

\* The NewTrade values given to create_trade, with the exit_price that
\* calculate_trade_metrics reads
NewTrades ==
    [symbol : Symbols, trade_type : TradeTypes, volume : {1},
     entry_price : Prices, sl : {1}, tp : {MaxPrice + 1},
     exit_price : {None} \cup {Some(x) : x \in Prices}]

\* calculate_trade_metrics: (is_win, profit_loss_pips, profit_loss_money,
\* risk_reward_ratio)
calculate_trade_metrics(trade) ==
    IF ~IsSome(trade.exit_price)
    THEN [is_win |-> None, profit_loss_pips |-> None, profit_loss_money |-> None,
          risk_reward_ratio |-> None]
    ELSE LET price_diff == Unwrap(trade.exit_price) - trade.entry_price
             profit_loss_pips == IF trade.symbol = "USDJPY"
                                 THEN price_diff * JpyPipFactor
                                 ELSE price_diff * PipFactor
             profit_loss_money == price_diff * trade.volume * LotSize
             is_win == IF trade.trade_type = "Buy" THEN profit_loss_money > 0
                       ELSE profit_loss_money < 0
             risk == Abs(trade.entry_price - trade.sl)
             reward == Abs(trade.tp - trade.entry_price)
             risk_reward_ratio == IF risk > 0 THEN Fin(reward, risk) ELSE Zero
         IN [is_win |-> Some(is_win), profit_loss_pips |-> Some(profit_loss_pips),
             profit_loss_money |-> Some(profit_loss_money),
             risk_reward_ratio |-> Some(risk_reward_ratio)]

\* The row that the INSERT of create_trade writes: the columns it names, among
\* them neither exit_price nor exit_time, which stay NULL
InsertedRow(trade) ==
    LET m == calculate_trade_metrics(trade)
    IN [symbol |-> trade.symbol, trade_type |-> trade.trade_type,
        volume |-> trade.volume, entry_price |-> trade.entry_price,
        sl |-> trade.sl, tp |-> trade.tp,
        exit_price |-> None,
        is_win |-> m.is_win, profit_loss_pips |-> m.profit_loss_pips,
        profit_loss_money |-> m.profit_loss_money,
        risk_reward_ratio |-> m.risk_reward_ratio,
        version |-> 1]

\* The column updates a caller of update_trade passes: any column, any value
ColumnUpdates ==
    [key : {"exit_price"}, value : {None} \cup {Some(x) : x \in Prices}]
    \cup [key : {"is_win"}, value : {None, Some(TRUE), Some(FALSE)}]
    \cup [key : {"profit_loss_money"}, value : {None, Some(LotSize), Some(0 - LotSize)}]
    \cup [key : {"version"}, value : {1}]

\* The operations of the trades table leave the analyzer alone.
DbIdle ==
    UNCHANGED << cache, now, stdlib, rest, lock, waiters, pc, op, local_trades, partial,
                 fetches, builds, raced, last >>

\* DatabaseState::create_trade
DbCreateTrade(trade) ==
    /\ Len(trades) < MaxRows
    /\ trades' = Append(trades, InsertedRow(trade))
    /\ DbIdle

\* update_trade without the version clause
DbUpdateTradeKeepsVersion(i, u) ==
    /\ trades[i].version < MaxVersion
    /\ trades' = [trades EXCEPT ![i] = [@ EXCEPT ![u.key] = u.value]]
    /\ DbIdle

\* DatabaseState::update_trade: SET key = value, version = version + 1; no
\* derived field is recomputed. The version clause is the last of the SET
\* list and reads the row as it was: when the update names version itself,
\* SQLite keeps the rightmost assignment of the column.
DbUpdateTrade(i, u) ==
    /\ trades[i].version < MaxVersion
    /\ trades' = [trades EXCEPT ![i] =
                     [[@ EXCEPT ![u.key] = u.value]
                         EXCEPT !.version = trades[i].version + 1]]
    /\ DbIdle

NextDb ==
    \/ \E trade \in NewTrades : DbCreateTrade(trade)
    \/ \E i \in 1 .. Len(trades), u \in ColumnUpdates : DbUpdateTrade(i, u)

SpecDb == Init /\ [][NextDb]_vars

\* ------------------------------------------- MetaTrader connection manager
\* The analyzer and the trades table are left alone.
AnalyzerIdle ==
    UNCHANGED << trades, cache, stdlib, lock, waiters, pc, op, local_trades,
                 partial, fetches, builds, raced >>

\* The shell of main.rs is left alone.
AppIdle ==
    UNCHANGED << is_initialized, setup, initialized, accessed, spawned,
                 disk, backup_manager, archive >>

\* The configurations config/mt_integration.json can hold
Configs ==
    [enabled : BOOLEAN, auto_reconnect : BOOLEAN,
     max_reconnect_attempts : 0 .. MaxAttempts]

\* MetaTraderIntegration::initialize returns Ok: load_config has read cfg, and
\* start_connection_manager has spawned the task unless cfg is disabled
InitializeOk(cfg) ==
    /\ manager = "new"
    /\ config' = cfg
    /\ manager' = IF cfg.enabled THEN "running" ELSE "disabled"
    /\ last' = Some([op |-> "initialize", outcome |-> "ok"])
    /\ UNCHANGED << connection_state, now >>
    /\ AnalyzerIdle
    /\ AppIdle

\* MetaTraderIntegration::initialize returns Err: load_config failed
InitializeErr ==
    /\ manager = "new"
    /\ manager' = "failed"
    /\ last' = Some([op |-> "initialize", outcome |-> "err"])
    /\ UNCHANGED << config, connection_state, now >>
    /\ AnalyzerIdle
    /\ AppIdle

\* One turn of the loop with the bound of the counter included
ConnectionManagerTickInclusive(result) ==
    /\ manager = "running"
    /\ IF ~connection_state.connected /\ config.auto_reconnect
       THEN IF connection_state.reconnect_attempts <= config.max_reconnect_attempts
            THEN IF result = "ok"
                 THEN /\ connection_state' =
                            [connected |-> TRUE, last_connection |-> Some(now),
                             reconnect_attempts |-> 0, last_error |-> None]
                      /\ last' = Some([op |-> "connection_manager",
                                       outcome |-> "connected"])
                 ELSE /\ connection_state' =
                            [connection_state EXCEPT
                                !.reconnect_attempts = @ + 1,
                                !.last_error = Some("Simulated connection failure")]
                      /\ last' = Some([op |-> "connection_manager",
                                       outcome |-> "failed"])
            ELSE /\ last' = Some([op |-> "connection_manager",
                                  outcome |-> "gave up"])
                 /\ UNCHANGED connection_state
       ELSE /\ last' = Some([op |-> "connection_manager", outcome |-> "idle"])
            /\ UNCHANGED connection_state
    /\ UNCHANGED << config, manager, now >>
    /\ AnalyzerIdle
    /\ AppIdle

\* One turn of the loop of start_connection_manager, under the write lock of
\* connection_state; result is what attempt_connection returns if it is called
ConnectionManagerTick(result) ==
    /\ manager = "running"
    /\ IF ~connection_state.connected /\ config.auto_reconnect
       THEN IF connection_state.reconnect_attempts < config.max_reconnect_attempts
            THEN IF result = "ok"
                 THEN /\ connection_state' =
                            [connected |-> TRUE, last_connection |-> Some(now),
                             reconnect_attempts |-> 0, last_error |-> None]
                      /\ last' = Some([op |-> "connection_manager",
                                       outcome |-> "connected"])
                 ELSE /\ connection_state' =
                            [connection_state EXCEPT
                                !.reconnect_attempts = @ + 1,
                                !.last_error = Some("Simulated connection failure")]
                      /\ last' = Some([op |-> "connection_manager",
                                       outcome |-> "failed"])
            ELSE /\ last' = Some([op |-> "connection_manager",
                                  outcome |-> "gave up"])
                 /\ UNCHANGED connection_state
       ELSE /\ last' = Some([op |-> "connection_manager", outcome |-> "idle"])
            /\ UNCHANGED connection_state
    /\ UNCHANGED << config, manager, now >>
    /\ AnalyzerIdle
    /\ AppIdle

NextConnection ==
    \/ \E cfg \in Configs : InitializeOk(cfg)
    \/ InitializeErr
    \/ \E result \in {"ok", "err"} : ConnectionManagerTick(result)
    \/ Tick

SpecConnection == Init /\ [][NextConnection]_vars

\* ---------------------------------------------------------- the shell, main.rs
\* The steps of initialize_app, in the order of the code
InitSteps ==
    << "database", "plugins", "trading_engine", "analyzer", "backup_manager",
       "mt_integration", "config" >>

\* The steps whose error ends initialize_app: all but the MetaTrader
\* integration, whose error is logged
Mandatory == {InitSteps[i] : i \in 1 .. Len(InitSteps)} \ {"mt_integration"}

\* The commands of generate_handler! and of the system tray, with the
\* component each calls into
Component ==
    [create_trade |-> "database", get_all_trades |-> "database",
     delete_trade |-> "database", update_trade |-> "database",
     get_schema |-> "database", update_schema |-> "database",
     get_ict_win_rates |-> "analyzer", get_ict_heatmap_data |-> "analyzer",
     list_plugins |-> "plugins", execute_plugin |-> "plugins",
     create_backup |-> "backup_manager", restore_from_backup |-> "backup_manager",
     save_image |-> "database", get_dashboard_data |-> "analyzer",
     create_backup_command |-> "backup_manager",
     execute_quick_analysis |-> "analyzer"]

Commands == DOMAIN Component

\* the commands that spawn update_analysis when they succeed
Spawning == {"create_trade", "delete_trade", "update_trade"}

NotInitialized == "Application not initialized"

\* The std Mutex around AppState is held by setup_app while initialize_app runs.
StateLocked == setup \notin {"start", "done", "failed"}

\* the position after a step that did not end initialize_app
StepAfter(step) ==
    LET i == CHOOSE j \in 1 .. Len(InitSteps) : InitSteps[j] = step
    IN IF i = Len(InitSteps) THEN "finish" ELSE InitSteps[i + 1]

Steps == {InitSteps[i] : i \in 1 .. Len(InitSteps)}

\* The analyzer, the trades table and the integration are not modelled here.
ShellOnly ==
    /\ AnalyzerIdle
    /\ UNCHANGED << now, config, connection_state, manager >>
    /\ UNCHANGED << disk, backup_manager, archive >>

\* setup_app locks the state and enters initialize_app
SetupBegin ==
    /\ setup = "start"
    /\ setup' = InitSteps[1]
    /\ last' = Some([op |-> "setup_app", result |-> "locked"])
    /\ UNCHANGED << is_initialized, initialized, accessed, spawned >>
    /\ ShellOnly

\* the next step of initialize_app returns Ok
InitStepOk ==
    /\ setup \in Steps
    /\ initialized' = initialized \cup {setup}
    /\ setup' = StepAfter(setup)
    /\ last' = Some([op |-> setup, result |-> "ok"])
    /\ UNCHANGED << is_initialized, accessed, spawned >>
    /\ ShellOnly

\* the next step of initialize_app returns Err: `?` leaves initialize_app and
\* setup_app reports the failure, but the error of the MetaTrader integration
\* is only logged
InitStepErr ==
    /\ setup \in Steps
    /\ setup' = IF setup \in Mandatory THEN "failed" ELSE StepAfter(setup)
    /\ last' = Some([op |-> setup, result |-> "err"])
    /\ UNCHANGED << is_initialized, initialized, accessed, spawned >>
    /\ ShellOnly

\* the end of initialize_app: the flag is set, and setup_app starts the
\* background tasks and unlocks the state
InitializeComplete ==
    /\ setup = "finish"
    /\ is_initialized' = TRUE
    /\ setup' = "done"
    /\ spawned' = [spawned EXCEPT !.background = TRUE]
    /\ last' = Some([op |-> "setup_app", result |-> "initialization_complete"])
    /\ UNCHANGED << initialized, accessed >>
    /\ ShellOnly

\* A command that calls into its component whatever the flag says
CommandUnguarded(cmd, ok) ==
    /\ ~StateLocked
    /\ (cmd \in Spawning /\ ok) => spawned.update_analysis < MaxSpawned
    /\ accessed' = accessed \cup {Component[cmd]}
    /\ last' = Some([op |-> cmd, result |-> IF ok THEN "ok" ELSE "failed"])
    /\ spawned' = IF cmd \in Spawning /\ ok
                  THEN [spawned EXCEPT !.update_analysis = @ + 1]
                  ELSE spawned
    /\ UNCHANGED << is_initialized, setup, initialized >>
    /\ ShellOnly

\* A command: it locks the state, tests the flag, and calls into its
\* component; ok is what the component returns
Command(cmd, ok) ==
    /\ ~StateLocked
    /\ (is_initialized /\ cmd \in Spawning /\ ok)
          => spawned.update_analysis < MaxSpawned
    /\ IF ~is_initialized
       THEN /\ last' = Some([op |-> cmd, result |-> NotInitialized])
            /\ UNCHANGED << accessed, spawned >>
       ELSE /\ accessed' = accessed \cup {Component[cmd]}
            /\ last' = Some([op |-> cmd, result |-> IF ok THEN "ok" ELSE "failed"])
            /\ spawned' = IF cmd \in Spawning /\ ok
                          THEN [spawned EXCEPT !.update_analysis = @ + 1]
                          ELSE spawned
    /\ UNCHANGED << is_initialized, setup, initialized >>
    /\ ShellOnly

\* update_analysis, spawned by a command that succeeded: no test of the flag
UpdateAnalysisTask ==
    /\ ~StateLocked
    /\ spawned.update_analysis > 0
    /\ spawned' = [spawned EXCEPT !.update_analysis = @ - 1]
    /\ accessed' = accessed \cup {"analyzer"}
    /\ last' = Some([op |-> "update_analysis", result |-> "ok"])
    /\ UNCHANGED << is_initialized, setup, initialized >>
    /\ ShellOnly

\* The components the tasks of start_background_tasks and the handler of
\* ExitRequested call into when the flag is set
TaskComponents ==
    [auto_backup |-> {"backup_manager"},
     data_sync |-> {"mt_integration", "analyzer"},
     health_monitoring |-> {"database", "backup_manager", "plugins"},
     exit_requested |-> {"database"}]

\* one turn of a background task
BackgroundTask(task) ==
    /\ ~StateLocked
    /\ spawned.background
    /\ task \in {"auto_backup", "data_sync", "health_monitoring"}
    /\ accessed' = IF is_initialized THEN accessed \cup TaskComponents[task]
                   ELSE accessed
    /\ last' = Some([op |-> task, result |-> "ok"])
    /\ UNCHANGED << is_initialized, setup, initialized, spawned >>
    /\ ShellOnly

\* RunEvent::ExitRequested: the database is closed if the flag is set, and the
\* exit is prevented
ExitRequested ==
    /\ ~StateLocked
    /\ accessed' = IF is_initialized
                   THEN accessed \cup TaskComponents["exit_requested"]
                   ELSE accessed
    /\ last' = Some([op |-> "exit_requested", result |-> "ok"])
    /\ UNCHANGED << is_initialized, setup, initialized, spawned >>
    /\ ShellOnly

NextApp ==
    \/ SetupBegin
    \/ InitStepOk
    \/ InitStepErr
    \/ InitializeComplete
    \/ \E cmd \in Commands, ok \in BOOLEAN : Command(cmd, ok)
    \/ UpdateAnalysisTask
    \/ \E task \in {"auto_backup", "data_sync", "health_monitoring"} :
            BackgroundTask(task)
    \/ ExitRequested

SpecApp == Init /\ [][NextApp]_vars

\* ------------------------------------------------------- backup, backup.rs
Bytes == 0 .. MaxByte

\* byte ^ byte
Xor(a, b) ==
    LET f[x \in Nat, y \in Nat] ==
            IF x = 0 /\ y = 0 THEN 0
            ELSE ((((x % 2) + (y % 2)) % 2) + (2 * f[x \div 2, y \div 2]))
    IN f[a, b]

\* the contents of a file: up to MaxContent bytes
Contents == UNION {[1 .. n -> Bytes] : n \in 0 .. MaxContent}

\* the bytes of the encryption_key string of the configuration
Keys == UNION {[1 .. n -> Bytes] : n \in 0 .. MaxKey}

\* the JSON that export_schema_to_file writes, never empty
SchemaJson == << 1, 2 >>

\* The configurations backup_config.json can hold
BackupConfigs ==
    [include_images : BOOLEAN, encryption_enabled : BOOLEAN,
     encryption_key : {None} \cup {Some(k) : k \in Keys}]

\* The files on disk: the database and an image, each there or not
Disks == [db : {None} \cup {Some(x) : x \in Contents},
          image : {None} \cup {Some(x) : x \in Contents}]

MetadataName == "backup_metadata.json"

\* hex_digest(Algorithm::SHA256, _): a digest that tells any two inputs apart
hex_digest(data) == [sha256 |-> data]

\* serde_json::to_vec_pretty and serde_json::from_str of BackupMetadata
to_vec_pretty(metadata) == [json |-> metadata]
from_str(text) == text.json

\* encrypt_data: byte i is xor-ed with key[i % key.len()]
encrypt_data(data, key) ==
    [i \in 1 .. Len(data) |-> Xor(data[i], key[((i - 1) % Len(key)) + 1])]

\* decrypt_data
decrypt_data(data, key) == encrypt_data(data, key)

\* is_file_encrypted
is_file_encrypted(mgr, data) == IsSome(mgr.encryption_key)

\* i % key.len() with an empty key: attempt to calculate the remainder with a
\* divisor of zero
EncryptPanics(mgr, data) ==
    /\ IsSome(mgr.encryption_key)
    /\ Len(Unwrap(mgr.encryption_key)) = 0
    /\ Len(data) > 0

\* The files create_backup visits, in its order: the database if it exists,
\* the exported schema, the image if images are included and it exists
VisitedFiles(mgr, d) ==
    (IF IsSome(d.db)
        THEN << [zip_path |-> "data/trading_journal.db", content |-> Unwrap(d.db)] >>
        ELSE << >>)
    \o << [zip_path |-> "data/schema_backup.json", content |-> SchemaJson] >>
    \o (IF mgr.config.include_images /\ IsSome(d.image)
        THEN << [zip_path |-> "images/image.png", content |-> Unwrap(d.image)] >>
        ELSE << >>)

\* add_file_to_zip: the checksum of the content read, then the entry with the
\* content, encrypted if there is a key
add_file_to_zip(mgr, zip, file) ==
    LET checksum == hex_digest(file.content)
        final_content ==
            IF IsSome(mgr.encryption_key)
            THEN encrypt_data(file.content, Unwrap(mgr.encryption_key))
            ELSE file.content
    IN [zip |-> Append(zip, [name |-> file.zip_path, content |-> final_content]),
        info |-> [zip_path |-> file.zip_path, size |-> Len(file.content),
                  checksum |-> checksum,
                  encrypted |-> IsSome(mgr.encryption_key)]]

\* the loops of backup_database, backup_images: every file added, in order
RECURSIVE AddFiles(_, _, _, _)
AddFiles(mgr, files, zip, included_files) ==
    IF files = << >> THEN [zip |-> zip, included_files |-> included_files]
    ELSE LET added == add_file_to_zip(mgr, zip, Head(files))
         IN AddFiles(mgr, Tail(files), added.zip,
                     Append(included_files, added.info))

RECURSIVE SumSizes(_)
SumSizes(files) ==
    IF files = << >> THEN 0 ELSE Head(files).size + SumSizes(Tail(files))

\* create_metadata: the digest of the joined checksums of the files
create_metadata(files, total_size) ==
    [file_count |-> Len(files),
     total_size |-> total_size,
     checksum |-> hex_digest([i \in 1 .. Len(files) |-> files[i].checksum])]

\* the zip file create_backup writes
BackupArchive(mgr, d) ==
    LET done == AddFiles(mgr, VisitedFiles(mgr, d), << >>, << >>)
        metadata == create_metadata(done.included_files,
                                    SumSizes(done.included_files))
    IN Append(done.zip, [name |-> MetadataName, content |-> to_vec_pretty(metadata)])

\* read_backup_metadata
read_backup_metadata(zip) ==
    LET i == CHOOSE j \in 1 .. Len(zip) : zip[j].name = MetadataName
    IN from_str(zip[i].content)

\* validate_backup_integrity
validate_backup_integrity(zip, metadata) ==
    IF Len(zip) # metadata.file_count + 1
    THEN "Backup file count mismatch"
    ELSE LET files == SelectSeq(zip, LAMBDA e : e.name # MetadataName)
             file_checksums == [i \in 1 .. Len(files) |-> hex_digest(files[i].content)]
         IN IF hex_digest(file_checksums) # metadata.checksum
            THEN "Backup checksum validation failed"
            ELSE "ok"

\* Everything but the backup manager is left alone.
BackupOnly ==
    /\ AnalyzerIdle
    /\ UNCHANGED << now, config, connection_state, manager >>
    /\ UNCHANGED << is_initialized, setup, initialized, accessed, spawned >>

\* BackupManager::initialize: load_config reads cfg, initialize_encryption
\* takes the bytes of the key if encryption is enabled and a key is given
BackupInitialize(cfg) ==
    /\ ~backup_manager.initialized
    /\ backup_manager' =
          [config |-> cfg,
           encryption_key |-> IF cfg.encryption_enabled THEN cfg.encryption_key
                              ELSE None,
           initialized |-> TRUE]
    /\ last' = Some([op |-> "initialize", result |-> "ok"])
    /\ UNCHANGED << disk, archive >>
    /\ BackupOnly

\* BackupManager::create_backup
CreateBackup ==
    /\ backup_manager.initialized
    /\ IF \E i \in 1 .. Len(VisitedFiles(backup_manager, disk)) :
             EncryptPanics(backup_manager,
                           VisitedFiles(backup_manager, disk)[i].content)
       THEN /\ last' = Some([op |-> "create_backup", result |-> "panic"])
            /\ UNCHANGED archive
       ELSE /\ archive' = Some(BackupArchive(backup_manager, disk))
            /\ last' = Some([op |-> "create_backup", result |-> "ok"])
    /\ UNCHANGED << disk, backup_manager >>
    /\ BackupOnly

\* extract_backup_files: every entry, decrypted if the manager has a key
extract_backup_files(mgr, zip) ==
    [i \in 1 .. Len(zip) |->
        [original_path |-> zip[i].name,
         content |-> IF zip[i].name = MetadataName THEN zip[i].content
                     ELSE IF is_file_encrypted(mgr, zip[i].content)
                     THEN decrypt_data(zip[i].content, Unwrap(mgr.encryption_key))
                     ELSE zip[i].content]]

\* restore_database: the extracted database file is copied over the database;
\* restore_images copies to images/, not to where the images were read
restore_database(d, files) ==
    LET db_files == SelectSeq(files,
                        LAMBDA f : f.original_path = "data/trading_journal.db")
    IN IF db_files = << >> THEN d
       ELSE [d EXCEPT !.db = Some(db_files[1].content)]

\* BackupManager::restore_backup of the archive: the validation, and the
\* extraction and the copies if it passes
RestoreBackup ==
    /\ backup_manager.initialized
    /\ IsSome(archive)
    /\ LET zip == Unwrap(archive)
           result == validate_backup_integrity(zip, read_backup_metadata(zip))
       IN /\ last' = Some([op |-> "restore_backup", result |-> result])
          /\ disk' = IF result = "ok"
                     THEN restore_database(disk,
                              extract_backup_files(backup_manager, zip))
                     ELSE disk
    /\ UNCHANGED << backup_manager, archive >>
    /\ BackupOnly

\* The backup manager with any files on disk
InitBackup ==
    /\ trades = << >>
    /\ cache = EmptyCache
    /\ now = 0
    /\ lock = 0
    /\ waiters = << >>
    /\ pc = [c \in Callers |-> "idle"]
    /\ op = [c \in Callers |-> "analyze_trades"]
    /\ local_trades = [c \in Callers |-> << >>]
    /\ partial = [c \in Callers |-> NoPartial]
    /\ fetches = [c \in Callers |-> << >>]
    /\ builds = [c \in Callers |-> 0]
    /\ raced = [c \in Callers |-> FALSE]
    /\ last = None
    /\ stdlib \in StdDevBuilds
    /\ config = DefaultConfig
    /\ connection_state = DefaultConnectionState
    /\ manager = "new"
    /\ is_initialized = FALSE
    /\ setup = "start"
    /\ initialized = {}
    /\ accessed = {}
    /\ spawned = [background |-> FALSE, update_analysis |-> 0]
    /\ disk \in Disks
    /\ backup_manager = NewBackupManager
    /\ archive = None

NextBackup ==
    \/ \E cfg \in BackupConfigs : BackupInitialize(cfg)
    \/ CreateBackup
    \/ RestoreBackup

SpecBackup == InitBackup /\ [][NextBackup]_vars

\* ------------------------------------------------------------------ claims
\* The call of caller c returns in this step; last' then describes it.
Returns(c) == pc[c] # "idle" /\ pc'[c] = "idle"

\* What the public method hands to its caller: `?` passes the error on,
\* update_all_analysis passes the report on, update_cache returns Ok(()).
Returned(r) ==
    [ok |-> IsSome(r.analysis),
     report |-> IF r.op = "update_cache" THEN None ELSE r.analysis]

\* Less than one freshness window has passed since start-up, so all calls
\* made so far lie within one freshness window.
WithinOneWindow == num_minutes(now) < FreshMinutes

Recomputing == {c \in Callers : pc[c] \in {"fetch", "build"}}

\* C1: when get_report callers overlap, one fetch and one builder run serve
\* them all and they receive the same report, whatever the table holds.
\* Stated for two overlapping calls that return one after the other.
C1_OneFetchForConcurrentCallers ==
    [][\A c \in Callers :
          (/\ Returns(c)
           /\ raced[c]
           /\ IsSome(last)
           /\ WithinOneWindow
           /\ Unwrap(last).op = "analyze_trades"
           /\ Unwrap(last').op = "analyze_trades"
           /\ IsSome(Unwrap(last).analysis)
           /\ IsSome(Unwrap(last').analysis))
          => /\ Unwrap(last').analysis = Unwrap(last).analysis
             /\ Len(Unwrap(last).fetches) + Len(Unwrap(last').fetches) <= 1
             /\ Unwrap(last).builds + Unwrap(last').builds <= 1]_vars

\* C2: at most one recomputation is in progress, it is the lock holder's, the
\* cache entry changes only in a step of the lock holder, and every other
\* caller that has arrived waits.
C2_OneRecomputationUnderLock ==
    /\ [](/\ Cardinality(Recomputing) <= 1
          /\ \A c \in Callers : c \in Recomputing <=> lock = c
          /\ \A c \in Callers :
                c \notin Recomputing =>
                    /\ pc[c] \in {"idle", "lock"}
                    /\ partial[c] = NoPartial
                    /\ local_trades[c] = << >>)
    /\ [][cache' # cache => lock # 0 /\ Returns(lock)]_vars

\* a caller waits for the lock while another one is building
C2_Witness ==
    \E c, d \in Callers : pc[c] = "build" /\ pc[d] = "lock" /\ lock = c

\* C3: update_all_analysis and update_cache always fetch and recompute, so
\* what they produce is the report of the trade set of that moment.
C3_RefreshAlwaysRecomputes ==
    IsSome(last) /\ Unwrap(last).op \in RefreshOps =>
        /\ Len(Unwrap(last).fetches) = 1
        /\ IsSome(Unwrap(last).analysis) => Unwrap(last).reflects

\* C4: two get_report calls within one freshness window return the same
\* report and query the repository at most once between them.
C4_TwoCallsOneQuery ==
    [][\A c \in Callers :
          (/\ Returns(c)
           /\ IsSome(last)
           /\ WithinOneWindow
           /\ Unwrap(last).op = "analyze_trades"
           /\ Unwrap(last').op = "analyze_trades"
           /\ IsSome(Unwrap(last).analysis)
           /\ IsSome(Unwrap(last').analysis))
          => /\ Unwrap(last').analysis = Unwrap(last).analysis
             /\ Len(Unwrap(last).fetches) + Len(Unwrap(last').fetches) <= 1]_vars

\* C5: a call whose fetch fails leaves the cache entry exactly as it was.
C5_FailedFetchKeepsCache ==
    [][\A c \in Callers :
          (Returns(c) /\ Unwrap(last').fetches # << >>
               /\ Unwrap(last').fetches[Len(Unwrap(last').fetches)] = "err")
          => cache' = cache]_vars

\* a fetch has failed and the report held before it is still held
C5_Witness ==
    /\ IsSome(last)
    /\ Unwrap(last).fetches = << "err" >>
    /\ IsSome(cache.trade_analysis)
    /\ IsSome(cache.last_update)

\* C6: a call whose fetch fails returns an error, no report, after exactly
\* one fetch attempt.
C6_FailedFetchIsAnError ==
    IsSome(last) /\ (\E i \in DOMAIN Unwrap(last).fetches :
                        Unwrap(last).fetches[i] = "err") =>
        /\ Returned(Unwrap(last)) = [ok |-> FALSE, report |-> None]
        /\ Len(Unwrap(last).fetches) = 1

\* a call made while a report was held has failed in its fetch
C6_Witness ==
    /\ IsSome(last)
    /\ Unwrap(last).fetches = << "err" >>
    /\ ~Returned(Unwrap(last)).ok
    /\ IsSome(cache.trade_analysis)

\* C7: the get_report that follows a refresh and is made within the freshness
\* window (a report is held, stored less than five minutes ago) returns the
\* report that refresh computed from the trades of its moment.
C7_GetAfterRefreshIsRefreshed ==
    [][\A c \in Callers :
          (/\ Returns(c)
           /\ IsSome(last)
           /\ Unwrap(last).op \in RefreshOps
           /\ IsSome(Unwrap(last).analysis)
           /\ Unwrap(last').op = "analyze_trades"
           /\ IsSome(Unwrap(last').analysis)
           /\ IsSome(cache.last_update)
           /\ now - Unwrap(cache.last_update) < FreshMinutes * TicksPerMinute)
          => /\ Unwrap(last).reflects
             /\ Unwrap(last').analysis = Unwrap(last).analysis]_vars

\* C8: the cache is empty at start-up, and a call that fetched successfully
\* and returns a report leaves that report and the time of the store in the
\* cache, whatever trade set it fetched.
C8_RecomputationSetsCache ==
    /\ cache = EmptyCache
    /\ [][\A c \in Callers :
             (Returns(c) /\ Unwrap(last').fetches = << "ok" >>
                  /\ IsSome(Unwrap(last').analysis))
             => cache' = [trade_analysis |-> Unwrap(last').analysis,
                          last_update |-> Some(now)]]_vars

\* C9: get_report serves the held report without fetching exactly when a
\* report is held and less than five minutes have passed since it was stored;
\* otherwise it goes on to fetch.
C9_FiveMinuteWindow ==
    [][\A c \in Callers :
          (pc[c] = "lock" /\ pc'[c] # "lock" /\ op[c] = "analyze_trades")
          => LET held == IsSome(cache.trade_analysis) /\ IsSome(cache.last_update)
                 young == now - Unwrap(cache.last_update)
                              < FreshMinutes * TicksPerMinute
             IN IF held /\ young
                THEN /\ Returns(c)
                     /\ Unwrap(last').analysis = cache.trade_analysis
                     /\ Unwrap(last').fetches = << >>
                     /\ Unwrap(last').builds = 0
                ELSE pc'[c] = "fetch"]_vars

\* a get_report has passed the check and goes on to fetch although a report
\* is held: the report is five minutes old or older
C9_Witness ==
    \E c \in Callers :
        /\ pc[c] = "fetch"
        /\ op[c] = "analyze_trades"
        /\ IsSome(cache.trade_analysis)
        /\ now - Unwrap(cache.last_update) >= FreshMinutes * TicksPerMinute

\* C10: the cache holds a report iff it holds a timestamp, and every report
\* held or returned has all eight groups.
C10_WholeReportsOnly ==
    /\ IsSome(cache.trade_analysis) <=> IsSome(cache.last_update)
    /\ IsSome(cache.trade_analysis) =>
           DOMAIN Unwrap(cache.trade_analysis) = SubReports
    /\ (IsSome(last) /\ IsSome(Unwrap(last).analysis)) =>
           DOMAIN Unwrap(Unwrap(last).analysis) = SubReports

\* some but not all of the eight closures have finished while the cache
\* holds the report of an earlier run
C10_Witness ==
    \E c \in Callers :
        /\ pc[c] = "build"
        /\ DOMAIN partial[c] # {}
        /\ DOMAIN partial[c] # SubReports
        /\ IsSome(cache.trade_analysis)

\* The report has all eight groups and is zero throughout: counts, amounts,
\* rates and ratios are 0 and the streak lists are empty.
IsZeroReport(r) ==
    /\ DOMAIN r = SubReports
    /\ \A f \in {"total_trades", "winning_trades", "losing_trades", "open_trades",
                 "net_profit", "gross_profit", "gross_loss", "max_drawdown"} :
          r.summary[f] = 0
    /\ \A f \in {"win_rate", "profit_factor", "expectancy", "average_trade",
                 "sharpe_ratio", "recovery_factor", "risk_of_ruin"} :
          r.summary[f] = Zero
    /\ r.performance.total_return = 0
    /\ r.performance.volatility = Zero
    /\ r.psychological.consistency.win_streaks = << >>
    /\ r.psychological.consistency.loss_streaks = << >>

\* The call of c has fetched an empty trade list.
FetchedEmpty(c) ==
    \/ pc[c] = "fetch" /\ trades = << >>
    \/ pc[c] = "build" /\ local_trades[c] = << >>

\* C11: a call that fetched an empty trade list returns the zero report
\* (profit_factor included) and has run no sub-analysis.
C11_EmptyGivesZeroReport ==
    [][\A c \in Callers :
          (Returns(c) /\ FetchedEmpty(c) /\ IsSome(Unwrap(last').analysis))
          => /\ IsZeroReport(Unwrap(Unwrap(last').analysis))
             /\ Unwrap(last').builds = 0]_vars

\* a call has fetched the empty table and returned a report
C11_Witness ==
    /\ trades = << >>
    /\ IsSome(last)
    /\ Unwrap(last).fetches = << "ok" >>
    /\ IsSome(Unwrap(last).analysis)
    /\ IsZeroReport(Unwrap(Unwrap(last).analysis))

\* The report the cache holds. Under SpecBuilder the table never changes, so
\* the held report is the one the builder made of `trades`.
Held == Unwrap(cache.trade_analysis)
HeldClosed == ClosedTrades(trades)
HeldProfits == Profits(ClosedTrades(trades))

\* C12: the closed and the open trades of the table are disjoint and together
\* are all its trades, and in the summary built from it the winning, losing
\* and open counts add up to the total.
C12_Partition ==
    /\ Len(ClosedTrades(trades)) + Len(OpenTrades(trades)) = Len(trades)
    /\ \A i \in 1 .. Len(ClosedTrades(trades)), j \in 1 .. Len(OpenTrades(trades)) :
          ClosedTrades(trades)[i] # OpenTrades(trades)[j]
    /\ IsSome(cache.trade_analysis) =>
          Held.summary.winning_trades + Held.summary.losing_trades
              + Held.summary.open_trades = Held.summary.total_trades

\* a report is held that was built from a table with open and closed trades
C12_Witness ==
    /\ IsSome(cache.trade_analysis)
    /\ Len(ClosedTrades(trades)) >= 2
    /\ Len(OpenTrades(trades)) >= 1

\* C13: profit_factor is +infinity iff the gross loss is exactly 0 and the
\* gross profit is greater than 0.
C13_InfiniteProfitFactor ==
    IsSome(cache.trade_analysis) =>
        (Held.summary.profit_factor = Inf
             <=> (Held.summary.gross_loss = 0 /\ Held.summary.gross_profit > 0))

\* C14: max_drawdown is never negative, is 0 for no profits at all and is 0
\* when no profit in the sequence is negative.
C14_DrawdownNonNegative ==
    IsSome(cache.trade_analysis) =>
        /\ Held.summary.max_drawdown >= 0
        /\ HeldProfits = << >> => Held.summary.max_drawdown = 0
        /\ (\A i \in 1 .. Len(HeldProfits) : HeldProfits[i] >= 0)
               => Held.summary.max_drawdown = 0

\* a report is held for two or more closed trades, none with a loss, not all
\* with the same profit
C14_Witness ==
    /\ IsSome(cache.trade_analysis)
    /\ Len(HeldProfits) >= 2
    /\ \A i \in 1 .. Len(HeldProfits) : HeldProfits[i] >= 0
    /\ HeldProfits[1] > HeldProfits[2]
    /\ Held.summary.max_drawdown = 0

\* x is a probability: a fraction in [0, 1], or a power of a base in (0, 1)
InUnitInterval(x) ==
    IF IsFraction(x) THEN x.den # 0 /\ ~FLess(x, Zero) /\ ~FLess(One, x)
    ELSE DOMAIN x = {"pow_base", "pow_exp"} /\ FLess(x.pow_base, One)

\* C15: with no winning trade and at least one losing trade risk_of_ruin is
\* 0.0, and risk_of_ruin always lies in [0, 1].
C15_RiskOfRuinWithoutWins ==
    IsSome(cache.trade_analysis) =>
        /\ (Held.summary.winning_trades = 0 /\ Held.summary.losing_trades >= 1)
               => Held.summary.risk_of_ruin = Zero
        /\ InUnitInterval(Held.summary.risk_of_ruin)

\* C16: when the profits are all equal (none, one, or several of the same
\* value) the builder does not fail and sharpe_ratio is 0.0.
C16_SharpeOfConstantProfits ==
    (\A i, j \in 1 .. Len(HeldProfits) : HeldProfits[i] = HeldProfits[j]) =>
        /\ IsSome(last) => IsSome(Unwrap(last).analysis)
        /\ IsSome(cache.trade_analysis) => Held.summary.sharpe_ratio = Zero

\* The table of the example: closed trades with profits 100, -50, 200
ExampleTable ==
    << [is_win |-> Some(TRUE), profit_loss_money |-> Some(100)],
       [is_win |-> Some(FALSE), profit_loss_money |-> Some(0 - 50)],
       [is_win |-> Some(TRUE), profit_loss_money |-> Some(200)] >>

\* C17: gross_profit is the sum of the positive profits, gross_loss the
\* absolute sum of the negative ones, net_profit their difference,
\* profit_factor their quotient when gross_loss > 0, win_rate 100 * winning /
\* closed; for profits 100, -50, 200: 250, 300, 50, 6 and 200/3 (66.67).
C17_SummaryAggregates ==
    IsSome(cache.trade_analysis) =>
        LET s == Held.summary
            pos == [i \in 1 .. Len(HeldProfits) |->
                       IF HeldProfits[i] > 0 THEN HeldProfits[i] ELSE 0]
            neg == [i \in 1 .. Len(HeldProfits) |->
                       IF HeldProfits[i] < 0 THEN 0 - HeldProfits[i] ELSE 0]
            winning == Cardinality({i \in 1 .. Len(HeldClosed) :
                                       HeldClosed[i].is_win = Some(TRUE)})
        IN /\ s.gross_profit = SumSeq(pos)
           /\ s.gross_loss = SumSeq(neg)
           /\ s.net_profit = s.gross_profit - s.gross_loss
           /\ s.gross_loss > 0 =>
                  /\ IsFinite(s.profit_factor)
                  /\ s.profit_factor.num * s.gross_loss
                         = s.gross_profit * s.profit_factor.den
           /\ HeldClosed # << >> =>
                  /\ IsFinite(s.win_rate)
                  /\ s.win_rate.num * Len(HeldClosed) = 100 * winning * s.win_rate.den
           /\ trades = ExampleTable =>
                  /\ s.net_profit = 250
                  /\ s.gross_profit = 300
                  /\ s.gross_loss = 50
                  /\ s.profit_factor = [num |-> 6, den |-> 1]
                  /\ s.win_rate = [num |-> 200, den |-> 3]

\* the report of the example table is held
C17_Witness ==
    /\ IsSome(cache.trade_analysis)
    /\ trades = ExampleTable

\* Longest run of flag b in a sequence of flags
RECURSIVE LongestRun(_, _, _, _)
LongestRun(flags, b, run, best) ==
    IF flags = << >> THEN best
    ELSE LET r == IF Head(flags) = b THEN run + 1 ELSE 0
         IN LongestRun(Tail(flags), b, r, IF r > best THEN r ELSE best)

RECURSIVE MaxOf(_)
MaxOf(v) ==
    IF v = << >> THEN 0
    ELSE IF Head(v) > MaxOf(Tail(v)) THEN Head(v) ELSE MaxOf(Tail(v))

\* C18: the streaks of the psychological group give the longest run of wins
\* and the longest run of losses of the trade sequence; for the table of
\* ExampleLen alternating wins and losses both are 1.
C18_LongestStreaks ==
    IsSome(cache.trade_analysis) =>
        LET flags == [i \in 1 .. Len(HeldClosed) |-> Unwrap(HeldClosed[i].is_win)]
            c == Held.psychological.consistency
        IN /\ MaxOf(c.win_streaks) = LongestRun(flags, TRUE, 0, 0)
           /\ MaxOf(c.loss_streaks) = LongestRun(flags, FALSE, 0, 0)
           /\ trades = Alternating =>
                  MaxOf(c.win_streaks) = 1 /\ MaxOf(c.loss_streaks) = 1

\* Reports r1 and r2 agree in every group and every summary field but the
\* summary fields in `except`.
SameExcept(r1, r2, except) ==
    /\ \A k \in SubReports \ {"summary"} : r1[k] = r2[k]
    /\ \A f \in (DOMAIN r1.summary) \ except : r1.summary[f] = r2.summary[f]

\* Positions of the open trades that can be taken out of the table without
\* emptying it
RemovableOpen ==
    {i \in 1 .. Len(trades) : ~IsSome(trades[i].is_win) /\ Len(trades) > 1}

\* C19 as claimed: the report of a table and the report of the same table
\* without one of its open trades differ in summary.open_trades only.
C19_OpenTradesOnlyInOpenCount ==
    IsSome(cache.trade_analysis) =>
        \A i \in RemovableOpen :
            SameExcept(Held, ReportOf(RemoveAt(trades, i)), {"open_trades"})

\* C19 as amended: they differ in summary.open_trades and
\* summary.total_trades only.
C19_OpenTradesOnlyInCounts ==
    IsSome(cache.trade_analysis) =>
        \A i \in RemovableOpen :
            SameExcept(Held, ReportOf(RemoveAt(trades, i)),
                       {"open_trades", "total_trades"})

\* a report is held for a table with closed trades and an open one
C19_Witness ==
    /\ IsSome(cache.trade_analysis)
    /\ RemovableOpen # {}
    /\ Len(HeldClosed) >= 2
    /\ Held.summary.net_profit # 0

\* C20: every stored trade has an exit price iff it has a win/loss flag, a
\* flagged trade has an exit price and a realised profit or loss, and the
\* derived fields are all NULL or all set.
C20_ClosedIffFlagged ==
    \A i \in 1 .. Len(trades) :
        LET t == trades[i]
        IN /\ IsSome(t.exit_price) <=> IsSome(t.is_win)
           /\ IsSome(t.is_win) =>
                  IsSome(t.exit_price) /\ IsSome(t.profit_loss_money)
           /\ \/ /\ IsSome(t.is_win)
                 /\ IsSome(t.profit_loss_pips)
                 /\ IsSome(t.profit_loss_money)
                 /\ IsSome(t.risk_reward_ratio)
              \/ /\ ~IsSome(t.is_win)
                 /\ ~IsSome(t.profit_loss_pips)
                 /\ ~IsSome(t.profit_loss_money)
                 /\ ~IsSome(t.risk_reward_ratio)

\* C21: create_trade stores version 1; an update_trade raises the version of
\* the trade it names by exactly 1, whatever column it sets, and leaves the
\* other trades as they are; no step lowers a version.
C21_VersionBumpedByOne ==
    [][/\ Len(trades') >= Len(trades)
       /\ Len(trades') > Len(trades) =>
              /\ trades'[Len(trades')].version = 1
              /\ \A i \in 1 .. Len(trades) : trades'[i] = trades[i]
       /\ Len(trades') = Len(trades) =>
              \E i \in 1 .. Len(trades) :
                  /\ trades'[i].version = trades[i].version + 1
                  /\ \A j \in (1 .. Len(trades)) \ {i} : trades'[j] = trades[j]]_vars

\* one trade has been updated up to the bound, also by an update that names
\* the version column, and the other trade is as created
C21_Witness ==
    /\ Len(trades) = MaxRows
    /\ trades[1].version = MaxVersion
    /\ IsSome(trades[1].exit_price)
    /\ trades[2].version = 1

\* A sequence back to front
Reverse(v) == [i \in 1 .. Len(v) |-> v[Len(v) + 1 - i]]

\* The closed trades of the table oldest entry time first: get_all_trades
\* returns the table newest entry time first.
OldestFirst(ts) == Reverse(ClosedTrades(ts))

\* C22: the profits that calculate_summary hands to calculate_max_drawdown are
\* those of the closed trades oldest first, so the max_drawdown of the held
\* report is the drawdown of the profits in chronological order.
C22_DrawdownInChronologicalOrder ==
    IsSome(cache.trade_analysis) =>
        /\ HeldProfits = Profits(OldestFirst(trades))
        /\ Held.summary.max_drawdown
               = calculate_max_drawdown(Profits(OldestFirst(trades)))

\* Cumulative sum of the first k elements
Cumulative(r, k) == SumSeq(SubSeq(r, 1, k))

\* Largest element of a non-empty finite set of integers
MaxOfSet(S) == CHOOSE x \in S : \A y \in S : y <= x

\* Reference drawdown: the largest fall from an earlier (or the same)
\* cumulative sum to a later one
ReferenceDrawdown(r) ==
    MaxOfSet({Cumulative(r, ij[1]) - Cumulative(r, ij[2]) :
                 ij \in {x \in (1 .. Len(r)) \X (1 .. Len(r)) : x[1] <= x[2]}})

\* C23: for non-empty profits the max_drawdown of the summary is the
\* reference drawdown of the sequence handed to calculate_max_drawdown.
C23_DrawdownIsReference ==
    (IsSome(cache.trade_analysis) /\ HeldProfits # << >>) =>
        Held.summary.max_drawdown = ReferenceDrawdown(HeldProfits)

\* a report is held whose profits start with a loss and fall again after a
\* gain: the drawdown is positive and the first loss alone is none
C23_Witness ==
    /\ IsSome(cache.trade_analysis)
    /\ Len(HeldProfits) >= 3
    /\ HeldProfits[1] < 0
    /\ HeldProfits[2] > 0
    /\ HeldProfits[3] < 0
    /\ Held.summary.max_drawdown > 0

\* C24: whichever closures of the join have finished, and in whatever order,
\* each result is the sub-report of the fetched trade list alone, and the
\* report a builder run returns is the report of that list.
C24_SubReportsIndependent ==
    /\ \A c \in Callers : \A k \in DOMAIN partial[c] :
           partial[c][k] = SubReport(k, local_trades[c])
    /\ (IsSome(last) /\ Unwrap(last).builds >= 1 /\ IsSome(Unwrap(last).analysis))
           => Unwrap(last).reflects

\* the performance closure has finished before the summary closure, on a
\* trade list with a closed trade
C24_Witness ==
    \E c \in Callers :
        /\ pc[c] = "build"
        /\ "performance" \in DOMAIN partial[c]
        /\ "summary" \notin DOMAIN partial[c]
        /\ ClosedTrades(local_trades[c]) # << >>

\* Length of the run of equal flags at the head of a sequence of flags
RunAtHead(flags) ==
    IF flags = << >> THEN 0
    ELSE MaxOfSet({k \in 1 .. Len(flags) : \A i \in 1 .. k : flags[i] = flags[1]})

\* C25: the streak returned is the length of the run of equal outcomes that
\* starts at the newest of the StreakLimit most recent closed trades, positive
\* for wins and negative for losses, 0 without a closed trade; it lies in
\* -StreakLimit .. StreakLimit and has the sign of the newest outcome.
C25_CurrentStreak ==
    (IsSome(last) /\ IsSome(Unwrap(last).streak)) =>
        LET streak == Unwrap(Unwrap(last).streak)
            closed == ClosedTrades(trades)
            newest == [i \in 1 .. Len(closed) |-> Unwrap(closed[i].is_win)]
            recent == IF Len(newest) <= StreakLimit THEN newest
                      ELSE SubSeq(newest, 1, StreakLimit)
        IN /\ closed = << >> => streak = 0
           /\ closed # << >> =>
                  streak = IF newest[1] THEN RunAtHead(recent)
                           ELSE 0 - RunAtHead(recent)
           /\ streak >= 0 - StreakLimit
           /\ streak <= StreakLimit
           /\ closed # << >> => (streak > 0 <=> newest[1])

\* the streak of a table with more than StreakLimit losses in a row
C25_Witness ==
    /\ IsSome(last)
    /\ IsSome(Unwrap(last).streak)
    /\ Len(ClosedTrades(trades)) > StreakLimit
    /\ Unwrap(Unwrap(last).streak) = 0 - StreakLimit

C27_FlagAgreesWithProfit ==
    \A i \in 1 .. Len(trades) :
        (trades[i].version = 1 /\ IsSome(trades[i].is_win)) =>
            (Unwrap(trades[i].is_win) <=> Unwrap(trades[i].profit_loss_money) > 0)

\* C28: the connection manager never lets reconnect_attempts exceed
\* max_reconnect_attempts; a failed attempt adds exactly 1 to it, a successful
\* attempt sets connected and resets it to 0, no attempt is made while
\* connected or once the counter has reached the maximum, and a state that is
\* not connected with the counter at the maximum stays not connected.
Attempted == IsSome(last') /\ Unwrap(last').outcome \in {"connected", "failed"}
TickAsClaimed ==
    (\E result \in {"ok", "err"} : ConnectionManagerTick(result)) =>
        /\ Attempted =>
              /\ ~connection_state.connected
              /\ connection_state.reconnect_attempts < config.max_reconnect_attempts
        /\ Unwrap(last').outcome = "failed" =>
              /\ connection_state'.reconnect_attempts
                    = connection_state.reconnect_attempts + 1
              /\ ~connection_state'.connected
        /\ Unwrap(last').outcome = "connected" =>
              /\ connection_state'.connected
              /\ connection_state'.reconnect_attempts = 0
        /\ ~Attempted => connection_state' = connection_state
C28_ReconnectAttemptsBounded ==
    /\ [](connection_state.reconnect_attempts <= config.max_reconnect_attempts)
    /\ [][TickAsClaimed]_vars
    /\ [][(manager = "running" /\ ~connection_state.connected
             /\ connection_state.reconnect_attempts >= config.max_reconnect_attempts)
            => ~connection_state'.connected]_vars
C28_Witness ==
    /\ manager = "running"
    /\ config.max_reconnect_attempts = MaxAttempts
    /\ connection_state.reconnect_attempts = MaxAttempts
    /\ ~connection_state.connected
    /\ last = Some([op |-> "connection_manager", outcome |-> "gave up"])

\* C29: while is_initialized is false every command returns "Application not
\* initialized" and calls into no component; is_initialized is true only when
\* every mandatory initialization step has succeeded, and once true it stays
\* true.
RejectedAsClaimed ==
    \A cmd \in Commands, ok \in BOOLEAN :
        (Command(cmd, ok) /\ ~is_initialized) =>
            /\ last' = Some([op |-> cmd, result |-> NotInitialized])
            /\ accessed' = accessed
            /\ trades' = trades /\ cache' = cache
C29_GuardedByIsInitialized ==
    /\ [](~is_initialized => accessed = {})
    /\ [][RejectedAsClaimed]_vars
    /\ [](is_initialized => Mandatory \subseteq initialized)
    /\ [][is_initialized => is_initialized']_vars
C29_Witness ==
    /\ setup = "failed"
    /\ "database" \in initialized
    /\ ~is_initialized
    /\ last = Some([op |-> "create_trade", result |-> NotInitialized])

\* C30: an archive written by create_backup passes validate_backup_integrity
\* of the same BackupManager, with encryption disabled and enabled.
C30_BackupRoundTrip ==
    (IsSome(last) /\ Unwrap(last).op = "restore_backup")
        => Unwrap(last).result = "ok"


====
